---- MODULE Spec2Model ----
(***************************************************************************)
(* Model of the to-do list application (src/src/App.tsx): the React state  *)
(* of the App component, its five effects, its event handlers, and the     *)
(* two external collaborators it talks to (identity provider and document  *)
(* store).                                                                  *)
(*                                                                         *)
(* An optional value (undefined / null / absent) is a sequence of length   *)
(* at most one: <<>> is "absent", <<v>> is "present with value v".          *)
(* A text is a sequence of one-character strings.                          *)
(***************************************************************************)
EXTENDS Integers, Sequences, FiniteSets, TLC

VARIABLES
    tasks,              \* useState<Task[]>          (App.tsx:17)
    newTask,            \* useState('')              (App.tsx:18)
    priority,           \* useState<Priority>        (App.tsx:19)
    userId,             \* useState<string | null>   (App.tsx:20)
    loading,            \* useState<boolean>(true)   (App.tsx:21)
    isInitialLoadDone,  \* useState<boolean>(false)  (App.tsx:24)
    darkMode,           \* useState<boolean>         (App.tsx:27)
    cached,             \* localStorage['darkMode']  (App.tsx:29, 43)
    authUser,           \* the identity provider's current user
    authQueue,          \* emissions of onAuthStateChanged not yet delivered
    signingIn,          \* a signInAnonymously request is in flight
    sub,                \* uid of the open document subscription, or NoUser
    subDead,            \* the subscription's error callback has fired
    delivered,          \* optional: the document last handed to the snapshot callback
    remote,             \* the store: uid -> optional document
    pending,            \* writes issued by setDoc and not yet settled
    now,                \* the last value Date.now() returned
    last,               \* the last event processed: [op, arg]
    events              \* number of user and environment events so far

vars == <<tasks, newTask, priority, userId, loading, isInitialLoadDone, darkMode,
          cached, authUser, authQueue, signingIn, sub, subDead, delivered,
          remote, pending, now, last, events>>

(***************************************************************************)
(* Bounds of the model.                                                    *)
(***************************************************************************)
MaxTasks == 3       \* longest local list the add handler is exercised on
MaxTime == 2        \* Date.now() ranges over 1..MaxTime
MaxEvents == 2      \* most user and environment events in one behaviour

(***************************************************************************)
(* Data.                                                                   *)
(***************************************************************************)
NoUser == "null"
Uids == {"u1", "u2"}
Priorities == {"high", "medium", "low"}
Whitespace == {" "}
\* What the user types into the text field (the field starts empty).
InputTexts == {<<" ">>, <<" ", "a", " ">>}

Task(text, completed, prio, createdAt) ==
    [text |-> text, completed |-> completed, priority |-> prio, createdAt |-> createdAt]

\* A user document: each field optional.  `extra` stands for any field other
\* than tasks and preferences.
Doc(t, d, x) == [tasks |-> t, darkMode |-> d, extra |-> x]
EmptyDoc == Doc(<<>>, <<>>, <<>>)

\* Documents other clients may have stored (createdAt unique within each).
ExternalDocs ==
    { <<>>,
      <<Doc(<<>>, <<TRUE>>, <<"x">>)>>,
      <<Doc(<< <<Task(<<"b">>, TRUE, "low", 1)>> >>, <<>>, <<>>)>> }

(***************************************************************************)
(* Pure helpers.                                                           *)
(***************************************************************************)
\* String.prototype.trim: drop leading and trailing whitespace.
RECURSIVE trimStart(_)
trimStart(s) ==
    IF s # <<>> /\ Head(s) \in Whitespace THEN trimStart(Tail(s)) ELSE s

RECURSIVE trimEnd(_)
trimEnd(s) ==
    IF s # <<>> /\ s[Len(s)] \in Whitespace THEN trimEnd(SubSeq(s, 1, Len(s) - 1)) ELSE s

\* Mutant of trim: the text is taken as typed.
trimNothing(s) == s

trim(s) == trimEnd(trimStart(s))

\* JSON.stringify / JSON.parse on a boolean (the localStorage cache of the theme).
JSONstringify(b) == IF b THEN "true" ELSE "false"
JSONparse(s) == s = "true"

\* What localStorage may hold under 'darkMode' when the component mounts.
SavedThemes == {<<>>, <<"true">>, <<"false">>}

\* The initializer of the darkMode state: saved !== null ? JSON.parse(saved) : false.
initialDarkMode(saved) == IF saved # <<>> THEN JSONparse(saved[1]) ELSE FALSE

\* Mutant of appendTask: the new task is put first.
prependTask(list, text, prio, t) ==
    <<Task(trim(text), FALSE, prio, t)>> \o list

\* addTask's new list: [...tasks, {text, completed:false, priority, createdAt}].
appendTask(list, text, prio, t) ==
    Append(list, Task(trim(text), FALSE, prio, t))

\* deleteTask's new list: tasks.filter((_, i) => i !== index).  Indices are
\* 1-based here; 0 stands for findIndex's -1 and matches no element.
filterIndex(list, index) ==
    IF index \in 1..Len(list)
    THEN [i \in 1..(Len(list) - 1) |-> IF i < index THEN list[i] ELSE list[i + 1]]
    ELSE list

\* Mutant of mapToggle: the task is marked completed instead of flipped.
mapComplete(list, index) ==
    [i \in 1..Len(list) |->
        IF i = index THEN [list[i] EXCEPT !.completed = TRUE] ELSE list[i]]

\* toggleComplete's new list: tasks.map((task, i) => i === index ? {...task,
\* completed: !task.completed} : task).
mapToggle(list, index) ==
    [i \in 1..Len(list) |->
        IF i = index THEN [list[i] EXCEPT !.completed = ~list[i].completed] ELSE list[i]]

\* The comparator of sortedTasks.
prioOrder(p) == CASE p = "high" -> 3 [] p = "medium" -> 2 [] p = "low" -> 1

\* Mutant of compareTasks: within a priority the older task comes first.
compareOldestFirst(a, b) ==
    LET prioDiff == prioOrder(b.priority) - prioOrder(a.priority)
    IN  IF prioDiff # 0 THEN prioDiff ELSE a.createdAt - b.createdAt

compareTasks(a, b) ==
    LET prioDiff == prioOrder(b.priority) - prioOrder(a.priority)
    IN  IF prioDiff # 0 THEN prioDiff ELSE b.createdAt - a.createdAt

\* Array.prototype.sort is stable: the sorted order of the list's positions,
\* built by stable insertion of position n into the sorted first n-1 positions.
RECURSIVE sortedOrder(_, _)
sortedOrder(list, n) ==
    IF n = 0 THEN <<>>
    ELSE LET s == sortedOrder(list, n - 1)
             k == Cardinality({j \in 1..Len(s) : compareTasks(list[s[j]], list[n]) <= 0})
         IN  SubSeq(s, 1, k) \o <<n>> \o SubSeq(s, k + 1, Len(s))

\* [...tasks].sort(...): the displayed list.
sortedTasks(list) ==
    LET o == sortedOrder(list, Len(list)) IN [k \in 1..Len(list) |-> list[o[k]]]

\* tasks.findIndex(t => t.createdAt === task.createdAt): first match, 0 if none.
originalIndex(list, task) ==
    LET hits == {i \in 1..Len(list) : list[i].createdAt = task.createdAt}
    IN  IF hits = {} THEN 0 ELSE CHOOSE i \in hits : \A j \in hits : i <= j

totalTasks == Len(tasks)

(***************************************************************************)
(* The document store (firebase/firestore), as the client sees it.         *)
(***************************************************************************)
TasksWrite(uid, list) == [uid |-> uid, kind |-> "tasks", tasks |-> list, darkMode |-> FALSE]
PrefsWrite(uid, dark) == [uid |-> uid, kind |-> "prefs", tasks |-> <<>>, darkMode |-> dark]

\* Mutant of mergeWrite: setDoc without {merge: true} replaces the document.
overwriteDoc(docOpt, w) ==
    IF w.kind = "tasks"
    THEN <<[EmptyDoc EXCEPT !.tasks = <<w.tasks>>]>>
    ELSE <<[EmptyDoc EXCEPT !.darkMode = <<w.darkMode>>]>>

\* setDoc(ref, fields, {merge: true}) applied to an optional document: the
\* document is created if absent and only the written field is replaced.
mergeWrite(docOpt, w) ==
    LET base == IF docOpt = <<>> THEN EmptyDoc ELSE docOpt[1]
    IN  IF w.kind = "tasks"
        THEN <<[base EXCEPT !.tasks = <<w.tasks>>]>>
        ELSE <<[base EXCEPT !.darkMode = <<w.darkMode>>]>>

\* The client's view of users/{uid}: the stored document with this client's
\* unsettled writes applied on top, in the order they were issued.
RECURSIVE overlay(_, _, _)
overlay(docOpt, ws, uid) ==
    IF ws = <<>> THEN docOpt
    ELSE overlay(IF Head(ws).uid = uid THEN mergeWrite(docOpt, Head(ws)) ELSE docOpt,
                 Tail(ws), uid)

view(uid) == overlay(remote[uid], pending, uid)

(***************************************************************************)
(* The effects of the component, run after a render in which the state     *)
(* took the given new values.  tasksSet says whether setTasks was called   *)
(* (every call passes a fresh array, so the tasks dependency changes).     *)
(***************************************************************************)
\* Mutant of saveAllowed: the guard forgets the initial-load flag.
saveAllowedUnloaded(uid, ready) == uid # NoUser

\* The guard of both save effects: if (!userId || !isInitialLoadDone) return;
saveAllowed(uid, ready) == uid # NoUser /\ ready

\* Mutant of saveTasksEffect: the effect writes the list of the previous render.
saveStaleTasksEffect(tasksSet, nTasks, nUser, nReady) ==
    IF (tasksSet \/ nUser # userId \/ nReady # isInitialLoadDone) /\ saveAllowed(nUser, nReady)
    THEN <<TasksWrite(nUser, tasks)>>
    ELSE <<>>

\* Mutant of saveTasksEffect: the guard is inverted on the initial-load flag.
saveTasksBeforeLoadEffect(tasksSet, nTasks, nUser, nReady) ==
    IF (tasksSet \/ nUser # userId \/ nReady # isInitialLoadDone) /\ nUser # NoUser /\ ~nReady
    THEN <<TasksWrite(nUser, nTasks)>>
    ELSE <<>>

\* Effect "Sauvegarde des taches", deps [tasks, userId, isInitialLoadDone].
saveTasksEffect(tasksSet, nTasks, nUser, nReady) ==
    IF (tasksSet \/ nUser # userId \/ nReady # isInitialLoadDone) /\ saveAllowed(nUser, nReady)
    THEN <<TasksWrite(nUser, nTasks)>>
    ELSE <<>>

\* Effect "Sauvegarde des preferences", deps [darkMode, userId, isInitialLoadDone].
savePrefsEffect(nDark, nUser, nReady) ==
    IF (nDark # darkMode \/ nUser # userId \/ nReady # isInitialLoadDone) /\ saveAllowed(nUser, nReady)
    THEN <<PrefsWrite(nUser, nDark)>>
    ELSE <<>>

\* Mutant of themeCacheEffect: the theme is never written to localStorage.
themeCacheStale(nDark) == cached

\* Effect on [darkMode]: localStorage.setItem('darkMode', JSON.stringify(darkMode)).
themeCacheEffect(nDark) ==
    IF nDark # darkMode THEN JSONstringify(nDark) ELSE cached

\* Mutant of subscriptionEffect: the effect returns no cleanup, so the first
\* listener stays wired when the identity changes.
subscriptionNoCleanup(nUser) ==
    IF sub = NoUser THEN nUser ELSE sub

\* Effect "Charger taches + darkMode", deps [userId]: when userId changes the
\* cleanup unsubscribes the old listener, then onSnapshot subscribes to
\* users/{userId}.  The uid the open subscription is keyed by.
subscriptionEffect(nUser) ==
    IF nUser # userId THEN nUser ELSE sub

\* One render-and-commit: the state takes the new values, then the effects
\* whose dependencies changed run in declaration order.  The subscription
\* effect (deps [userId]) tears the old subscription down and opens the new
\* one, setting loading back to true.
Commit(tasksSet, nTasks, nUser, nReady, nDark, nLoading) ==
    /\ tasks' = nTasks
    /\ userId' = nUser
    /\ isInitialLoadDone' = nReady
    /\ darkMode' = nDark
    /\ cached' = themeCacheEffect(nDark)
    /\ sub' = subscriptionEffect(nUser)
    /\ IF nUser # userId
       THEN /\ subDead' = FALSE
            /\ loading' = TRUE
       ELSE /\ UNCHANGED subDead
            /\ loading' = nLoading
    /\ pending' = pending \o saveTasksEffect(tasksSet, nTasks, nUser, nReady)
                          \o savePrefsEffect(nDark, nUser, nReady)

Event(op, arg) == [op |-> op, arg |-> arg]

\* A step of the store or of the identity provider answering the component.
SystemStep == UNCHANGED events

\* A step taken by the user or forced by the environment.
OutsideStep == events < MaxEvents /\ events' = events + 1

(***************************************************************************)
(* Initial state: the component has mounted and its mount effects have     *)
(* run.  darkMode was read from localStorage (false if nothing was saved), *)
(* the theme effect has written it back, and onAuthStateChanged will       *)
(* deliver the provider's current user: none.  (A restored session is the  *)
(* state reached from here once an anonymous sign-in has resolved.)  The   *)
(* store may already hold a document for u1; u2 has never been used.       *)
(***************************************************************************)
Init ==
    /\ tasks = <<>>
    /\ newTask = <<>>
    /\ priority = "medium"
    /\ userId = NoUser
    /\ loading = TRUE
    /\ isInitialLoadDone = FALSE
    /\ darkMode \in {initialDarkMode(saved) : saved \in SavedThemes}
    /\ cached = JSONstringify(darkMode)
    /\ authUser = NoUser
    /\ authQueue = <<authUser>>
    /\ signingIn = FALSE
    /\ sub = NoUser
    /\ subDead = FALSE
    /\ delivered = <<>>
    /\ remote \in {r \in [Uids -> ExternalDocs] : r["u2"] = <<>>}
    /\ pending = <<>>
    /\ now = 1
    /\ last = Event("mount", 0)
    /\ events = 0

(***************************************************************************)
(* Identity provider.                                                      *)
(***************************************************************************)
\* Mutant of authCallback: a new identity resets the initial-load flag.
authCallbackResetReady ==
    /\ SystemStep
    /\ authQueue # <<>>
    /\ authQueue' = Tail(authQueue)
    /\ LET user == Head(authQueue)
       IN  IF user # NoUser
           THEN /\ Commit(FALSE, tasks, user, isInitialLoadDone /\ user = userId, darkMode,
                          loading)
                /\ delivered' = IF user # userId THEN <<>> ELSE delivered
                /\ UNCHANGED signingIn
           ELSE /\ signingIn' = TRUE
                /\ UNCHANGED <<tasks, userId, isInitialLoadDone, darkMode, cached, sub,
                               subDead, loading, pending, delivered>>
    /\ last' = Event("auth", 0)
    /\ UNCHANGED <<newTask, priority, authUser, remote, now>>

\* The onAuthStateChanged callback: setUserId(user.uid), or request sign-in.
authCallback ==
    /\ SystemStep
    /\ authQueue # <<>>
    /\ authQueue' = Tail(authQueue)
    /\ LET user == Head(authQueue)
       IN  IF user # NoUser
           THEN /\ Commit(FALSE, tasks, user, isInitialLoadDone, darkMode, loading)
                /\ delivered' = IF user # userId THEN <<>> ELSE delivered
                /\ UNCHANGED signingIn
           ELSE /\ signingIn' = TRUE
                /\ UNCHANGED <<tasks, userId, isInitialLoadDone, darkMode, cached, sub,
                               subDead, loading, pending, delivered>>
    /\ last' = Event("auth", 0)
    /\ UNCHANGED <<newTask, priority, authUser, remote, now>>

\* signInAnonymously resolves: the provider has a user and emits it.
signInOk(u) ==
    /\ SystemStep
    /\ signingIn
    /\ signingIn' = FALSE
    /\ authUser' = u
    /\ authQueue' = Append(authQueue, u)
    /\ last' = Event("signInOk", 0)
    /\ UNCHANGED <<tasks, newTask, priority, userId, loading, isInitialLoadDone, darkMode,
                   cached, sub, subDead, delivered, remote, pending, now>>

\* Mutant of signInFail: the rejected sign-in is requested again.
signInFailRetry ==
    /\ OutsideStep
    /\ signingIn
    /\ signingIn' = TRUE
    /\ last' = Event("signInFail", 0)
    /\ UNCHANGED <<tasks, newTask, priority, userId, loading, isInitialLoadDone, darkMode,
                   cached, authUser, authQueue, sub, subDead, delivered, remote, pending, now>>

\* signInAnonymously rejects: .catch(console.error), nothing else.
signInFail ==
    /\ OutsideStep
    /\ signingIn
    /\ signingIn' = FALSE
    /\ last' = Event("signInFail", 0)
    /\ UNCHANGED <<tasks, newTask, priority, userId, loading, isInitialLoadDone, darkMode,
                   cached, authUser, authQueue, sub, subDead, delivered, remote, pending, now>>

\* The provider loses its user (session revoked or signed out elsewhere) and emits null.
signOut ==
    /\ OutsideStep
    /\ authUser # NoUser
    /\ authUser' = NoUser
    /\ authQueue' = Append(authQueue, NoUser)
    /\ last' = Event("signOut", 0)
    /\ UNCHANGED <<tasks, newTask, priority, userId, loading, isInitialLoadDone, darkMode,
                   cached, signingIn, sub, subDead, delivered, remote, pending, now>>

(***************************************************************************)
(* Document store.                                                         *)
(***************************************************************************)
\* Mutant of snapshotTasks: no setTasks([]) when the document does not exist.
snapshotTasksNoElse(d) ==
    IF d # <<>> THEN (IF d[1].tasks # <<>> THEN d[1].tasks[1] ELSE <<>>) ELSE tasks

\* setTasks(data.tasks || []) if the document exists, setTasks([]) if not.
snapshotTasks(d) ==
    IF d # <<>> /\ d[1].tasks # <<>> THEN d[1].tasks[1] ELSE <<>>

\* setDarkMode(data.preferences.darkMode) if the document exists and defines it.
snapshotDarkMode(d) ==
    IF d # <<>> /\ d[1].darkMode # <<>> THEN d[1].darkMode[1] ELSE darkMode

\* The store owes the open subscription a snapshot: its first, or a view that
\* differs from the one last delivered.  The client notifies its listener of
\* a local write before the write is sent, so the store's other events
\* (a write settling, a remote change arriving) wait until none is due.
snapshotDue ==
    /\ sub # NoUser
    /\ ~subDead
    /\ IF delivered = <<>> THEN TRUE ELSE delivered[1] # view(sub)

\* The onSnapshot callback.  The store calls it with the first view of the
\* document and then whenever the view differs from the one last delivered.
snapshot ==
    /\ SystemStep
    /\ snapshotDue
    /\ LET d == view(sub)
       IN  /\ Commit(TRUE, snapshotTasks(d), userId, TRUE, snapshotDarkMode(d), FALSE)
           /\ delivered' = <<d>>
           /\ last' = Event("snapshot", IF delivered = <<>> THEN 1 ELSE 2)
    /\ UNCHANGED <<newTask, priority, authUser, authQueue, signingIn, remote, now>>

\* The onSnapshot error callback (console.error): the stream stops.
snapshotError ==
    /\ OutsideStep
    /\ sub # NoUser
    /\ ~subDead
    /\ subDead' = TRUE
    /\ last' = Event("snapshotError", 0)
    /\ UNCHANGED <<tasks, newTask, priority, userId, loading, isInitialLoadDone, darkMode,
                   cached, authUser, authQueue, signingIn, sub, delivered, remote, pending, now>>

\* The oldest unsettled write reaches the store.
writeAck ==
    /\ SystemStep
    /\ ~snapshotDue
    /\ pending # <<>>
    /\ remote' = [remote EXCEPT ![Head(pending).uid] = mergeWrite(@, Head(pending))]
    /\ pending' = Tail(pending)
    /\ last' = Event("writeAck", 0)
    /\ UNCHANGED <<tasks, newTask, priority, userId, loading, isInitialLoadDone, darkMode,
                   cached, authUser, authQueue, signingIn, sub, subDead, delivered, now>>

\* Mutant of writeFail: the rejected write is issued again.
writeFailRetry ==
    /\ OutsideStep
    /\ ~snapshotDue
    /\ pending # <<>>
    /\ pending' = Append(Tail(pending), Head(pending))
    /\ last' = Event("writeFail", 0)
    /\ UNCHANGED <<tasks, newTask, priority, userId, loading, isInitialLoadDone, darkMode,
                   cached, authUser, authQueue, signingIn, sub, subDead, delivered, remote, now>>

\* The oldest unsettled write is rejected: .catch(console.error), nothing else.
writeFail ==
    /\ OutsideStep
    /\ ~snapshotDue
    /\ pending # <<>>
    /\ pending' = Tail(pending)
    /\ last' = Event("writeFail", 0)
    /\ UNCHANGED <<tasks, newTask, priority, userId, loading, isInitialLoadDone, darkMode,
                   cached, authUser, authQueue, signingIn, sub, subDead, delivered, remote, now>>

\* Another client replaces users/{u}.
externalChange(u, d) ==
    /\ OutsideStep
    /\ ~snapshotDue
    /\ remote[u] # d
    /\ remote' = [remote EXCEPT ![u] = d]
    /\ last' = Event("external", 0)
    /\ UNCHANGED <<tasks, newTask, priority, userId, loading, isInitialLoadDone, darkMode,
                   cached, authUser, authQueue, signingIn, sub, subDead, delivered, pending, now>>

(***************************************************************************)
(* Event handlers of the rendered UI.  The theme button is always          *)
(* rendered; the form, the list and the footer only while loading is false.*)
(***************************************************************************)
\* onClick={() => setDarkMode(!darkMode)}
toggleTheme ==
    /\ OutsideStep
    /\ Commit(FALSE, tasks, userId, isInitialLoadDone, ~darkMode, loading)
    /\ last' = Event("theme", 0)
    /\ UNCHANGED <<newTask, priority, authUser, authQueue, signingIn, delivered, remote, now>>

\* onChange={(e) => setNewTask(e.target.value)}
typeText(txt) ==
    /\ OutsideStep
    /\ ~loading
    /\ txt # newTask
    /\ newTask' = txt
    /\ last' = Event("type", 0)
    /\ UNCHANGED <<tasks, priority, userId, loading, isInitialLoadDone, darkMode, cached,
                   authUser, authQueue, signingIn, sub, subDead, delivered, remote, pending, now>>

\* onChange={(e) => setPriority(e.target.value as Priority)}
selectPriority(p) ==
    /\ OutsideStep
    /\ ~loading
    /\ p # priority
    /\ priority' = p
    /\ last' = Event("select", 0)
    /\ UNCHANGED <<tasks, newTask, userId, loading, isInitialLoadDone, darkMode, cached,
                   authUser, authQueue, signingIn, sub, subDead, delivered, remote, pending, now>>

\* addTask, from the button or the Enter key.  Date.now() does not go back
\* in this model, and may return the value it returned last.
addTask ==
    /\ OutsideStep
    /\ ~loading
    /\ IF trim(newTask) = <<>>
       THEN /\ last' = Event("add", 0)
            /\ UNCHANGED <<tasks, newTask, priority, userId, loading, isInitialLoadDone,
                           darkMode, cached, sub, subDead, pending, now>>
       ELSE /\ Len(tasks) < MaxTasks
            /\ \E t \in now..MaxTime :
                 /\ Commit(TRUE, appendTask(tasks, newTask, priority, t), userId,
                           isInitialLoadDone, darkMode, loading)
                 /\ now' = t
            /\ newTask' = <<>>
            /\ priority' = "medium"
            /\ last' = Event("add", 1)
    /\ UNCHANGED <<authUser, authQueue, signingIn, delivered, remote>>

\* deleteTask(originalIndex), from the k-th displayed item.
deleteTask(k) ==
    /\ OutsideStep
    /\ ~loading
    /\ k \in 1..Len(tasks)
    /\ Commit(TRUE, filterIndex(tasks, originalIndex(tasks, sortedTasks(tasks)[k])), userId,
              isInitialLoadDone, darkMode, loading)
    /\ last' = Event("delete", k)
    /\ UNCHANGED <<newTask, priority, authUser, authQueue, signingIn, delivered, remote, now>>

\* toggleComplete(originalIndex), from the k-th displayed item.
toggleComplete(k) ==
    /\ OutsideStep
    /\ ~loading
    /\ k \in 1..Len(tasks)
    /\ Commit(TRUE, mapToggle(tasks, originalIndex(tasks, sortedTasks(tasks)[k])), userId,
              isInitialLoadDone, darkMode, loading)
    /\ last' = Event("toggle", k)
    /\ UNCHANGED <<newTask, priority, authUser, authQueue, signingIn, delivered, remote, now>>

\* clearAllTasks: rendered when totalTasks > 0; window.confirm answers ok or not.
clearAllTasks(ok) ==
    /\ OutsideStep
    /\ ~loading
    /\ totalTasks > 0
    /\ IF ok
       THEN Commit(TRUE, <<>>, userId, isInitialLoadDone, darkMode, loading)
       ELSE UNCHANGED <<tasks, userId, loading, isInitialLoadDone, darkMode, cached, sub,
                        subDead, pending>>
    /\ last' = Event("clear", IF ok THEN 1 ELSE 0)
    /\ UNCHANGED <<newTask, priority, authUser, authQueue, signingIn, delivered, remote, now>>

Next ==
    \/ authCallback
    \/ \E u \in Uids : signInOk(u)
    \/ signInFail
    \/ signOut
    \/ snapshot
    \/ snapshotError
    \/ writeAck
    \/ writeFail
    \/ \E u \in Uids, d \in ExternalDocs : externalChange(u, d)
    \/ toggleTheme
    \/ \E txt \in InputTexts : typeText(txt)
    \/ \E p \in Priorities : selectPriority(p)
    \/ addTask
    \/ \E k \in 1..MaxTasks : deleteTask(k)
    \/ \E k \in 1..MaxTasks : toggleComplete(k)
    \/ \E ok \in BOOLEAN : clearAllTasks(ok)

Spec == Init /\ [][Next]_vars

\* The program with an environment that does not fail: sign-in resolves, the
\* subscription does not error and writes are not rejected.  The identity
\* provider and the store answer what they are asked (weak fairness).
LiveNext ==
    \/ authCallback
    \/ \E u \in Uids : signInOk(u)
    \/ signOut
    \/ snapshot
    \/ writeAck
    \/ \E u \in Uids, d \in ExternalDocs : externalChange(u, d)
    \/ toggleTheme
    \/ \E txt \in InputTexts : typeText(txt)
    \/ \E p \in Priorities : selectPriority(p)
    \/ addTask
    \/ \E k \in 1..MaxTasks : deleteTask(k)
    \/ \E k \in 1..MaxTasks : toggleComplete(k)
    \/ \E ok \in BOOLEAN : clearAllTasks(ok)

LiveSpec ==
    /\ Init
    /\ [][LiveNext]_vars
    /\ WF_vars(authCallback)
    /\ WF_vars(\E u \in Uids : signInOk(u))
    /\ WF_vars(snapshot)
    /\ WF_vars(writeAck)

(***************************************************************************)
(* The list operations on their own: the state is one the program reaches  *)
(* once u1's document has been loaded and written back, with any list of   *)
(* distinctly stamped tasks in it and any content in the form; from there  *)
(* the user works on the list and the store answers.                       *)
(***************************************************************************)
LoadedTasks == {Task(<<"b">>, FALSE, p, t) : p \in Priorities, t \in 1..MaxTime}

LoadedLists ==
    {<<>>} \cup {<<x>> : x \in LoadedTasks}
           \cup {l \in {<<x, y>> : x \in LoadedTasks, y \in LoadedTasks} :
                    l[1].createdAt # l[2].createdAt}

OpsInit ==
    /\ tasks \in LoadedLists
    /\ newTask \in {<<>>} \cup InputTexts
    /\ priority \in Priorities
    /\ userId = "u1"
    /\ loading = FALSE
    /\ isInitialLoadDone = TRUE
    /\ darkMode = FALSE
    /\ cached = JSONstringify(darkMode)
    /\ authUser = "u1"
    /\ authQueue = <<>>
    /\ signingIn = FALSE
    /\ sub = "u1"
    /\ subDead = FALSE
    /\ remote = [u \in Uids |-> IF u = "u1" THEN <<Doc(<<tasks>>, <<darkMode>>, <<>>)>> ELSE <<>>]
    /\ delivered = <<remote["u1"]>>
    /\ pending = <<>>
    /\ now = 1
    /\ last = Event("writeAck", 0)
    /\ events = 0

OpsNext ==
    \/ snapshot
    \/ writeAck
    \/ \E txt \in InputTexts : typeText(txt)
    \/ \E p \in Priorities : selectPriority(p)
    \/ addTask
    \/ \E k \in 1..MaxTasks : deleteTask(k)
    \/ \E k \in 1..MaxTasks : toggleComplete(k)
    \/ \E ok \in BOOLEAN : clearAllTasks(ok)

OpsSpec == OpsInit /\ [][OpsNext]_vars

\* The theme scenario: one identity signs in, the user does nothing but toggle
\* the theme, and no write settles, so that pending holds every write issued.
ThemeNext ==
    \/ authCallback
    \/ \E u \in Uids : signInOk(u)
    \/ snapshot
    \/ toggleTheme

ThemeSpec == Init /\ [][ThemeNext]_vars

(***************************************************************************)
(* Vocabulary of the properties.                                           *)
(***************************************************************************)
\* The step issues at least one write / exactly the writes ws.
IssuesWrite == Len(pending') > Len(pending)
IssuesExactly(ws) == pending' = pending \o ws

\* The subscription open for the current identity has had a snapshot processed.
FirstSnapshotDone == userId # NoUser /\ sub = userId /\ delivered # <<>>

\* An optional document as a document (absent fields for an absent document).
Fields(docOpt) == IF docOpt = <<>> THEN EmptyDoc ELSE docOpt[1]

\* s consists of whitespace only (or is empty).
Blank(s) == \A i \in 1..Len(s) : s[i] \in Whitespace

\* r is s without its leading and trailing whitespace.
IsTrimOf(r, s) ==
    /\ r # <<>>
    /\ r[1] \notin Whitespace
    /\ r[Len(r)] \notin Whitespace
    /\ \E i \in 0..Len(s) :
         /\ i + Len(r) <= Len(s)
         /\ SubSeq(s, i + 1, i + Len(r)) = r
         /\ Blank(SubSeq(s, 1, i))
         /\ Blank(SubSeq(s, i + Len(r) + 1, Len(s)))

\* The list without its p-th element.
RemoveAt(list, p) == SubSeq(list, 1, p - 1) \o SubSeq(list, p + 1, Len(list))

(***************************************************************************)
(* C1.  Write guard: no write (tasks or preferences) is issued to          *)
(* users/{id} before the first snapshot of the subscription opened for the *)
(* current identity id has been processed.  Every step that issues a write *)
(* ends in a state where that snapshot has been processed, and the writes  *)
(* it issues go to the current identity's document.                        *)
(***************************************************************************)
C1_WriteGuard ==
    [][IssuesWrite =>
         /\ FirstSnapshotDone'
         /\ \A i \in (Len(pending) + 1)..Len(pending') : pending'[i].uid = userId']_vars

C4_WriteFraming ==
    [][last'.op = "writeAck" =>
         LET w == Head(pending)
             before == Fields(remote[w.uid])
             after == Fields(remote'[w.uid])
         IN  /\ remote'[w.uid] # <<>>
             /\ \A u \in Uids \ {w.uid} : remote'[u] = remote[u]
             /\ after.extra = before.extra
             /\ IF w.kind = "tasks"
                THEN after.tasks = <<w.tasks>> /\ after.darkMode = before.darkMode
                ELSE after.darkMode = <<w.darkMode>> /\ after.tasks = before.tasks]_vars

\* A tasks write has reached a document that carries a theme and another field.
C4_Witness ==
    /\ last.op = "writeAck"
    /\ \E u \in Uids :
         /\ remote[u] # <<>>
         /\ remote[u][1].extra # <<>>
         /\ remote[u][1].darkMode # <<>>
         /\ remote[u][1].tasks # <<>>

(***************************************************************************)
(* C5.  Snapshot processing: after a snapshot is processed, local tasks    *)
(* equal the snapshot's tasks if the document exists and has a tasks       *)
(* field, and the empty sequence if the document is absent or has no tasks *)
(* field; local darkMode equals snapshot.preferences.darkMode if that is   *)
(* defined and is otherwise unchanged; and isInitialLoadDone is true.      *)
(***************************************************************************)
C5_SnapshotProcessing ==
    [][last'.op = "snapshot" =>
         LET snap == delivered'[1]
         IN  /\ snap = view(sub)
             /\ tasks' = IF snap # <<>> /\ snap[1].tasks # <<>> THEN snap[1].tasks[1] ELSE <<>>
             /\ darkMode' = IF snap # <<>> /\ snap[1].darkMode # <<>>
                            THEN snap[1].darkMode[1] ELSE darkMode
             /\ isInitialLoadDone']_vars

\* A snapshot of a document with a theme and no tasks field has been processed.
C5_Witness ==
    /\ last.op = "snapshot"
    /\ delivered # <<>>
    /\ delivered[1] # <<>>
    /\ delivered[1][1].tasks = <<>>
    /\ delivered[1][1].darkMode = <<darkMode>>
    /\ tasks = <<>>
    /\ isInitialLoadDone

(***************************************************************************)
(* C7.  add with a text that is non-empty after trimming increases the     *)
(* local list length by exactly 1 by appending, at the end, a task with    *)
(* text = trim(text), completed = false, the selected priority and         *)
(* createdAt = now; all existing tasks are unchanged and keep their        *)
(* positions.                                                              *)
(***************************************************************************)
C7_AddAppends ==
    [][(last'.op = "add" /\ ~Blank(newTask)) =>
         /\ Len(tasks') = Len(tasks) + 1
         /\ \A i \in 1..Len(tasks) : tasks'[i] = tasks[i]
         /\ IsTrimOf(tasks'[Len(tasks')].text, newTask)
         /\ tasks'[Len(tasks')].completed = FALSE
         /\ tasks'[Len(tasks')].priority = priority
         /\ tasks'[Len(tasks')].createdAt = now']_vars

\* A task has been appended to a non-empty list.
C7_Witness ==
    /\ last = Event("add", 1)
    /\ Len(tasks) = 2
    /\ tasks[2].text = <<"a">>
    /\ tasks[1].text # <<"a">>

(***************************************************************************)
(* C8.  add with empty or whitespace-only text is a silent no-op: the      *)
(* local task list, the pending input text and the selected priority are   *)
(* unchanged, and no write to the store is issued.                         *)
(***************************************************************************)
C8_BlankAddNoOp ==
    [][(last'.op = "add" /\ Blank(newTask)) =>
         /\ tasks' = tasks
         /\ newTask' = newTask
         /\ priority' = priority
         /\ ~IssuesWrite
         /\ pending' = pending]_vars

\* add has been invoked on a whitespace-only text with a priority selected.
C8_Witness ==
    /\ last.op = "add"
    /\ newTask = <<" ">>
    /\ priority = "low"

(***************************************************************************)
(* C9.  remove, invoked from the k-th displayed (sorted) item, decreases   *)
(* the canonical list length by exactly 1 and removes exactly the task the *)
(* user targeted, i.e. the canonical element shown at display position k;  *)
(* every other task remains, unchanged and in the same relative order.     *)
(***************************************************************************)
C9_RemoveTargeted ==
    [][last'.op = "delete" =>
         LET target == sortedOrder(tasks, Len(tasks))[last'.arg]
         IN  /\ Len(tasks') = Len(tasks) - 1
             /\ tasks' = RemoveAt(tasks, target)]_vars

(***************************************************************************)
(* C10.  toggle is an involution with a tight frame: toggle(i) flips only  *)
(* the completed field of the task at index i (text, priority, createdAt   *)
(* and all other tasks unchanged, length and order unchanged), and         *)
(* applying toggle(i) again with no intervening event restores the list.   *)
(***************************************************************************)
C10_ToggleInvolution ==
    [][last'.op = "toggle" =>
         \E i \in 1..Len(tasks) :
            /\ i = originalIndex(tasks, sortedTasks(tasks)[last'.arg])
            /\ Len(tasks') = Len(tasks)
            /\ \A j \in 1..Len(tasks) :
                 tasks'[j] = IF j = i THEN Task(tasks[j].text, ~tasks[j].completed,
                                                tasks[j].priority, tasks[j].createdAt)
                             ELSE tasks[j]
            /\ originalIndex(tasks', sortedTasks(tasks')[last'.arg]) = i
            /\ mapToggle(tasks', i) = tasks]_vars

\* The second displayed task of a two-element list, the first of the canonical
\* list, has been toggled back to not completed.
C10_Witness ==
    /\ last = Event("toggle", 2)
    /\ Len(tasks) = 2
    /\ sortedTasks(tasks)[2] = tasks[1]
    /\ tasks[1].text = <<"b">>
    /\ ~tasks[1].completed
    /\ ~tasks[2].completed

(***************************************************************************)
(* C2.  Theme end-to-end, as claimed: if the theme is toggled before the   *)
(* first snapshot is processed, no write is issued; if the theme is then   *)
(* toggled once more after the first snapshot has been processed, exactly  *)
(* one preferences write has been issued in total, and it carries the      *)
(* darkMode value resulting from that toggle.  (Under ThemeSpec every      *)
(* event counted by `events` is a theme toggle and pending holds every     *)
(* write issued so far.)                                                   *)
(***************************************************************************)
PrefsIssued(ws) == Cardinality({i \in 1..Len(ws) : ws[i].kind = "prefs"})

ToggledOnceBeforeAndNowAfter ==
    last'.op = "theme" /\ last = Event("snapshot", 1) /\ events = 1

C2_ThemeEndToEnd ==
    [][/\ (last'.op = "theme" /\ ~FirstSnapshotDone) => ~IssuesWrite
       /\ ToggledOnceBeforeAndNowAfter =>
            /\ PrefsIssued(pending') = 1
            /\ pending'[Len(pending')] = PrefsWrite(userId, darkMode')]_vars

(***************************************************************************)
(* C2, amended.  A theme toggle before the first snapshot is processed     *)
(* issues no write; processing the first snapshot itself issues one        *)
(* preferences write, carrying the darkMode in force after that snapshot;  *)
(* a toggle after it issues exactly one further preferences write, which   *)
(* carries the darkMode value resulting from that toggle: two preferences  *)
(* writes in total.                                                        *)
(***************************************************************************)
C2_ThemeTwoWrites ==
    [][/\ (last'.op = "theme" /\ ~FirstSnapshotDone) => ~IssuesWrite
       /\ last' = Event("snapshot", 1) =>
            /\ PrefsIssued(pending) = 0
            /\ PrefsIssued(pending') = 1
            /\ pending'[Len(pending')] = PrefsWrite(userId, darkMode')
       /\ ToggledOnceBeforeAndNowAfter =>
            /\ PrefsIssued(pending') = 2
            /\ IssuesExactly(<<PrefsWrite(userId, darkMode')>>)]_vars

\* The theme was toggled once before the first snapshot and once after it, and
\* two preferences writes have been issued.
C2_Witness ==
    /\ last.op = "theme"
    /\ events = 2
    /\ isInitialLoadDone
    /\ PrefsIssued(pending) = 2
    /\ pending[Len(pending)] = PrefsWrite(userId, darkMode)

(***************************************************************************)
(* C6.  Consistency, as claimed: if writes succeed and local mutations and *)
(* external remote changes stop (in every behaviour of LiveSpec they do),  *)
(* the system eventually reaches and stays in a quiescent state (no write  *)
(* unsettled, no snapshot due, no identity emission undelivered) in which  *)
(* the remote document's tasks and preferences.darkMode equal the local    *)
(* tasks and darkMode.                                                     *)
(***************************************************************************)
Quiescent ==
    /\ userId # NoUser
    /\ pending = <<>>
    /\ ~snapshotDue
    /\ authQueue = <<>>
    /\ ~signingIn

\* The remote tasks are the local tasks (an absent document or tasks field
\* counting as the empty list, as it does when a snapshot is read).
RemoteTasksEqualLocal ==
    LET t == Fields(remote[userId]).tasks
    IN  tasks = IF t = <<>> THEN <<>> ELSE t[1]

RemoteThemeEqualsLocal == Fields(remote[userId]).darkMode = <<darkMode>>

\* C6: eventually, and from then on, the system is quiescent with the remote
\* document's tasks and preferences.darkMode equal to the local ones.
C6_Consistency ==
    <>[](Quiescent /\ RemoteTasksEqualLocal /\ RemoteThemeEqualsLocal)

(***************************************************************************)
(* C6, weaker form.  Under the same hypotheses the system eventually reaches*)
(* and stays in a quiescent state in which the remote document's tasks     *)
(* equal the local tasks and its preferences.darkMode, if it has one,      *)
(* equals the local darkMode.  (After an external change that leaves the   *)
(* document without preferences.darkMode, nothing writes the local theme   *)
(* back until the theme next changes.)                                     *)
(***************************************************************************)
C6_ConsistencyAmended ==
    <>[](/\ Quiescent
         /\ RemoteTasksEqualLocal
         /\ Fields(remote[userId]).darkMode \in {<<>>, <<darkMode>>})

\* C6: a quiescent, consistent state reached after local mutations were
\* written back.
C6_Witness ==
    /\ Quiescent
    /\ RemoteTasksEqualLocal
    /\ RemoteThemeEqualsLocal
    /\ last.op = "writeAck"
    /\ events = MaxEvents
    /\ Len(tasks) = 2

(***************************************************************************)
(* C11.  The displayed list is a permutation of the canonical list,        *)
(* ordered by priority descending (high > medium > low whatever the        *)
(* timestamps) and within a priority by createdAt descending, tasks with   *)
(* equal keys keeping their canonical relative order; the canonical list   *)
(* is the state and stays in insertion order (sorting works on a copy).    *)
(***************************************************************************)
PriorityRank(p) == IF p = "high" THEN 1 ELSE IF p = "medium" THEN 2 ELSE 3

IsPermutationOrder(o, n) ==
    /\ Len(o) = n
    /\ {o[i] : i \in 1..Len(o)} = 1..n

C11_SortForDisplay ==
    LET n == Len(tasks)
        o == sortedOrder(tasks, n)
        s == sortedTasks(tasks)
    IN  /\ IsPermutationOrder(o, n)
        /\ Len(s) = n
        /\ \A k \in 1..n : s[k] = tasks[o[k]]
        /\ \A i \in 1..n : \A j \in 1..n :
             i < j =>
               \/ PriorityRank(s[i].priority) < PriorityRank(s[j].priority)
               \/ /\ s[i].priority = s[j].priority
                  /\ s[i].createdAt > s[j].createdAt
               \/ /\ s[i].priority = s[j].priority
                  /\ s[i].createdAt = s[j].createdAt
                  /\ o[i] < o[j]

\* C11: a three-task list has been built by an add; the display order differs
\* from the canonical one, an older high task precedes a more recent low one,
\* and two tasks with equal keys are present.
C11_Witness ==
    /\ last = Event("add", 1)
    /\ Len(tasks) = 3
    /\ sortedTasks(tasks) # tasks
    /\ \E i \in 1..3 : \E j \in 1..3 :
         /\ i < j
         /\ tasks[i].priority = tasks[j].priority
         /\ tasks[i].createdAt = tasks[j].createdAt
    /\ \E i \in 1..3 : \E j \in 1..3 :
         /\ sortedTasks(tasks)[i].priority = "high"
         /\ sortedTasks(tasks)[j].priority = "low"
         /\ sortedTasks(tasks)[i].createdAt < sortedTasks(tasks)[j].createdAt

(***************************************************************************)
(* C12.  A failed write is dropped: the step in which a write is rejected  *)
(* leaves tasks, darkMode and the ready flag (and the rest of the local    *)
(* state and the store) as they were and issues no write, the rejected     *)
(* write simply ceasing to be pending; and a local mutation made right     *)
(* after a failure issues a fresh write of the full current state.         *)
(***************************************************************************)
TaskMutation(e) ==
    \/ e = Event("add", 1)
    \/ e = Event("clear", 1)
    \/ e.op \in {"delete", "toggle"}

Unauthenticated ==
    /\ userId = NoUser
    /\ sub = NoUser
    /\ pending = <<>>
    /\ delivered = <<>>
    /\ loading
    /\ ~isInitialLoadDone

C13_SignInPolicy ==
    /\ [](userId = NoUser => Unauthenticated)
    /\ [][ /\ (last'.op = "auth" /\ authQueue # <<>> /\ Head(authQueue) = NoUser) =>
                /\ signingIn'
                /\ UNCHANGED <<userId, sub, pending>>
           /\ last'.op = "signInFail" =>
                /\ signingIn
                /\ ~signingIn'
                /\ UNCHANGED <<userId, sub, pending, authUser, authQueue>>
           /\ (signingIn' /\ ~signingIn) =>
                /\ last'.op = "auth"
                /\ authQueue # <<>>
                /\ Head(authQueue) = NoUser
           /\ userId' # userId =>
                /\ last'.op = "auth"
                /\ authQueue # <<>>
                /\ Head(authQueue) = userId'
                /\ userId' # NoUser
         ]_vars

\* C13: the sign-in has failed (none in flight, the provider has no user and
\* nothing left to emit), the user has then toggled the theme, and the
\* component is still unauthenticated with nothing written.
C13_Witness ==
    /\ last.op = "theme"
    /\ events = 2
    /\ Unauthenticated
    /\ ~signingIn
    /\ authQueue = <<>>
    /\ authUser = NoUser
    /\ remote = [u \in Uids |-> <<>>]

(***************************************************************************)
(* C14.  The cached theme tracks the theme state: after every render's     *)
(* effects the localStorage value is the serialisation of darkMode (and    *)
(* parses back to it), and the step that processes a snapshot whose        *)
(* preferences.darkMode is defined leaves both darkMode and the cached     *)
(* value equal to the remote value, whatever they were before.             *)
(***************************************************************************)
C14_ThemeCache ==
    /\ [](cached = JSONstringify(darkMode) /\ JSONparse(cached) = darkMode)
    /\ [][ (last'.op = "snapshot" /\ Fields(delivered'[1]).darkMode # <<>>) =>
              /\ darkMode' = Fields(delivered'[1]).darkMode[1]
              /\ JSONparse(cached') = Fields(delivered'[1]).darkMode[1]
         ]_vars

\* C14: after the first load, another client has replaced the document by one
\* with preferences.darkMode = true and no tasks field; its snapshot has been
\* processed and the theme and the cache are both true.
C14_Witness ==
    /\ last = Event("snapshot", 2)
    /\ events = 1
    /\ delivered = << <<Doc(<<>>, <<TRUE>>, <<"x">>)>> >>
    /\ darkMode = TRUE
    /\ cached = "true"

(***************************************************************************)
(* C15.  Subscription discipline: the one open subscription is always      *)
(* keyed by the current identity; the render in which the identity changes *)
(* replaces the old subscription by a fresh one for the new identity (no   *)
(* snapshot delivered yet, loading again); and every snapshot applied to   *)
(* local state is the current identity's document.                         *)
(***************************************************************************)
C15_SubscriptionDiscipline ==
    /\ [](sub = userId)
    /\ [][ /\ userId' # userId =>
                /\ sub' = userId'
                /\ delivered' = <<>>
                /\ ~subDead'
                /\ loading'
           /\ last'.op = "snapshot" =>
                /\ sub = userId
                /\ userId' = userId
                /\ delivered' = <<view(userId)>>
                /\ tasks' = snapshotTasks(view(userId))
         ]_vars

\* C15: the identity has changed from u1 to u2 (writes issued as u1 are still
\* unsettled) and the first snapshot of users/u2 has been processed.
C15_Witness ==
    /\ userId = "u2"
    /\ sub = "u2"
    /\ last = Event("snapshot", 1)
    /\ pending # <<>>
    /\ pending[1].uid = "u1"
    /\ remote["u1"] # <<>>

(***************************************************************************)
(* C16.  createdAt uniqueness: in every reachable state no two tasks of    *)
(* the local list share the same createdAt, and no tasks write carries a   *)
(* list in which two tasks do.  (Documents in the store start with unique  *)
(* stamps: see ExternalDocs and LoadedLists.)                              *)
(***************************************************************************)
UniqueCreatedAt(list) ==
    \A i \in 1..Len(list) : \A j \in 1..Len(list) :
        i # j => list[i].createdAt # list[j].createdAt

C16_CreatedAtUnique ==
    /\ UniqueCreatedAt(tasks)
    /\ \A i \in 1..Len(pending) :
         pending[i].kind = "tasks" => UniqueCreatedAt(pending[i].tasks)

(***************************************************************************)
(* C17.  The ready flag is monotone and global: no step takes              *)
(* isInitialLoadDone from true to false, only a processed snapshot takes   *)
(* it from false to true, and it stays true through an identity change;    *)
(* loading, on the contrary, is true after every step that opens a         *)
(* subscription.                                                           *)
(***************************************************************************)
C17_ReadyFlagMonotone ==
    [][ /\ isInitialLoadDone => isInitialLoadDone'
        /\ (~isInitialLoadDone /\ isInitialLoadDone') => last'.op = "snapshot"
        /\ last'.op = "snapshot" => (isInitialLoadDone' /\ ~loading')
        /\ sub' # sub => loading'
        /\ last'.op \in {"snapshotError", "writeFail", "signOut", "signInFail"} =>
             UNCHANGED <<isInitialLoadDone, loading>>
      ]_vars

\* C17: the identity has just changed from u1, whose document was loaded, to
\* u2: the new subscription has had no snapshot yet and loading is true again,
\* but the ready flag is still true.
C17_Witness ==
    /\ last.op = "auth"
    /\ userId = "u2"
    /\ sub = "u2"
    /\ delivered = <<>>
    /\ loading
    /\ isInitialLoadDone
    /\ \E i \in 1..Len(pending) : pending[i].uid = "u1"

(***************************************************************************)
(* C18.  UI gating: whenever loading is false the ready flag is true and   *)
(* an identity is set; add, remove, toggle and clear-all happen only while *)
(* loading is false, and each of them that changes the list issues exactly *)
(* one tasks write, to the current identity's document, carrying the full  *)
(* mutated list; the theme toggle is available in every state, loading or  *)
(* not (as long as the user acts at all).                                  *)
(***************************************************************************)
TaskUiEvent(e) == e.op \in {"type", "select", "add", "delete", "toggle", "clear"}

C18_UiGating ==
    /\ [](~loading => (isInitialLoadDone /\ userId # NoUser))
    /\ [](events < MaxEvents => ENABLED toggleTheme)
    /\ [][ /\ TaskUiEvent(last') => (~loading /\ ~loading')
           /\ TaskMutation(last') =>
                /\ saveAllowed(userId, isInitialLoadDone)
                /\ IssuesExactly(<<TasksWrite(userId, tasks')>>)
         ]_vars

\* C18: the user has confirmed clear-all on a loaded, non-empty list (the
\* store still holds the tasks); the list is empty and the last write issued
\* carries the empty list to the current identity's document.
C18_Witness ==
    /\ last = Event("clear", 1)
    /\ ~loading
    /\ tasks = <<>>
    /\ Fields(remote[userId]).tasks # <<>>
    /\ Fields(remote[userId]).tasks[1] # <<>>
    /\ pending # <<>>
    /\ pending[Len(pending)] = TasksWrite(userId, <<>>)

====
